---- MODULE Spec2Model ----
(***************************************************************************)
(* A model of ercot/rts.py: RealtimeSettlementParser.get_locations and     *)
(* RealtimeSettlementParser.parse_data, with the conversions they rely on  *)
(* (str.strip, datetime.strptime, datetime + timedelta, float).            *)
(*                                                                         *)
(* A cell text is a sequence of one-character strings, so that the         *)
(* conversions are computed character by character.  A datetime is a       *)
(* record [year, month, day, hour, minute, second].  List indices keep     *)
(* Python's zero base; a TLA+ sequence is read at index + 1.               *)
(***************************************************************************)
EXTENDS Integers, Sequences, FiniteSets, TLC

VARIABLES
  clock,          \* the wall clock datetime.now() reads
  pc,             \* position of the running call
  op,             \* the method running: "parse_data", "get_locations", "none"
  zone_or_hub,    \* parse_data's first argument (None or a label)
  start_time_arg, \* parse_data's second argument as passed
  start_time,     \* the local start_time after lines 42-45
  table,          \* the Tag _get_table returned
  headers,        \* the local headers
  hub_zone_index, \* the local hub_zone_index (0-based)
  date_index,     \* the local date_index (0-based)
  time_index,     \* the local time_index (0-based)
  row_i,          \* 0-based position of the for loop in rows
  result,         \* the local list result
  ret,            \* the value the call returned (NoValue: none yet, or raised)
  err,            \* the exception the call raised (NoError: none)
  log,            \* what the call has done so far, in order
  date_arg,       \* _create_datetime's last date argument
  time_arg,       \* _create_datetime's last time argument
  price_datetime  \* _create_datetime's last outcome

vars == <<clock, pc, op, zone_or_hub, start_time_arg, start_time, table, headers,
          hub_zone_index, date_index, time_index, row_i, result, ret, err, log,
          date_arg, time_arg, price_datetime>>

\* Python's None, and an argument that is no datetime (a str, say).
None == [py |-> "None"]
NotADatetime == [py |-> "str"]
\* A local that is not bound yet.
Unset == [py |-> "unbound"]

\* An exception: its Python type and the line of rts.py that raises it.
Raise(type, line) == [type |-> type, line |-> line]
NoError == [type |-> "NoError", line |-> 0]

IsError(x) == DOMAIN x = {"type", "line"} /\ x # NoError

\* What a call gave back: nothing yet (or an exception instead), or a value.
NoValue == [returned |-> FALSE, value |-> <<>>]
Returned(v) == [returned |-> TRUE, value |-> v]

(***************************************************************************)
(* Characters and numbers                                                  *)
(***************************************************************************)
Digits == {"0", "1", "2", "3", "4", "5", "6", "7", "8", "9"}

DigitVal(c) ==
  CASE c = "0" -> 0 [] c = "1" -> 1 [] c = "2" -> 2 [] c = "3" -> 3 [] c = "4" -> 4
    [] c = "5" -> 5 [] c = "6" -> 6 [] c = "7" -> 7 [] c = "8" -> 8 [] c = "9" -> 9

DigitChar(n) == <<"0", "1", "2", "3", "4", "5", "6", "7", "8", "9">>[n + 1]

Whitespace == {" "}

Range(s) == {s[i] : i \in DOMAIN s}

MinOf(S) == CHOOSE x \in S : \A y \in S : x <= y

\* The character of s at 0-based position p, or "" past the end.
At(s, p) == IF p >= 0 /\ p < Len(s) THEN s[p + 1] ELSE ""

\* int() of the digits s[p .. p+n-1].
RECURSIVE DigitsVal(_, _, _)
DigitsVal(s, p, n) ==
  IF n = 0 THEN 0 ELSE DigitsVal(s, p, n - 1) * 10 + DigitVal(At(s, p + n - 1))

\* str.strip(): leading and trailing whitespace removed.
RECURSIVE LStrip(_)
LStrip(s) == IF s # <<>> /\ Head(s) \in Whitespace THEN LStrip(Tail(s)) ELSE s

RECURSIVE RStrip(_)
RStrip(s) ==
  IF s # <<>> /\ s[Len(s)] \in Whitespace THEN RStrip(SubSeq(s, 1, Len(s) - 1)) ELSE s

strip(s) == RStrip(LStrip(s))

(***************************************************************************)
(* datetime: the proleptic Gregorian calendar of the datetime module       *)
(***************************************************************************)
Years == 2023 .. 2026

DT(y, mo, d, h, mi, s) ==
  [year |-> y, month |-> mo, day |-> d, hour |-> h, minute |-> mi, second |-> s]

\* isinstance(x, datetime)
IsDatetime(x) == DOMAIN x = {"year", "month", "day", "hour", "minute", "second"}

IsLeap(y) == y % 4 = 0 /\ (y % 100 # 0 \/ y % 400 = 0)

DaysInMonth(y, mo) ==
  IF mo = 2 THEN (IF IsLeap(y) THEN 29 ELSE 28)
  ELSE IF mo \in {4, 6, 9, 11} THEN 30 ELSE 31

DaysBeforeYear(y) ==
  (y - 1) * 365 + ((y - 1) \div 4) - ((y - 1) \div 100) + ((y - 1) \div 400)

RECURSIVE DaysBeforeMonth(_, _)
DaysBeforeMonth(y, mo) ==
  IF mo = 1 THEN 0 ELSE DaysBeforeMonth(y, mo - 1) + DaysInMonth(y, mo - 1)

\* date.toordinal()
ToOrdinal(y, mo, d) == DaysBeforeYear(y) + DaysBeforeMonth(y, mo) + d

\* date.fromordinal(n), for the years of the model
FromOrdinal(n) ==
  LET y == CHOOSE yy \in Years : DaysBeforeYear(yy) < n /\ n <= DaysBeforeYear(yy + 1)
      mo == CHOOSE m \in 1 .. 12 :
              /\ DaysBeforeMonth(y, m) < n - DaysBeforeYear(y)
              /\ n - DaysBeforeYear(y) <= DaysBeforeMonth(y, m) + DaysInMonth(y, m)
  IN [year |-> y, month |-> mo, day |-> n - DaysBeforeYear(y) - DaysBeforeMonth(y, mo)]

SecondsPerDay == 24 * 3600

\* datetime + timedelta(days, seconds): the sum is renormalised from the ordinal
\* day and the second of the day.
AddTimedelta(dt, days, seconds) ==
  LET secs == dt.hour * 3600 + dt.minute * 60 + dt.second + seconds
      ord == ToOrdinal(dt.year, dt.month, dt.day) + days + (secs \div SecondsPerDay)
      sod == secs % SecondsPerDay
      ymd == FromOrdinal(ord)
  IN DT(ymd.year, ymd.month, ymd.day, sod \div 3600, (sod % 3600) \div 60, sod % 60)

\* a <= b on datetimes
DatetimeLE(a, b) ==
  LET ka == <<a.year, a.month, a.day, a.hour, a.minute, a.second>>
      kb == <<b.year, b.month, b.day, b.hour, b.minute, b.second>>
  IN \/ ka = kb
     \/ \E i \in 1 .. 6 : ka[i] < kb[i] /\ \A j \in 1 .. (i - 1) : ka[j] = kb[j]

(***************************************************************************)
(* datetime.strptime with the two formats of __init__, as _strptime does   *)
(* it: the format becomes a regular expression, re.match takes the first   *)
(* match in the order of its alternatives, and text left over after the    *)
(* match is an error.                                                      *)
(***************************************************************************)
\* The first element of the sequence cands that is in the set good, or <<>>.
FirstOf(cands, good) ==
  LET hits == {i \in DOMAIN cands : cands[i] \in good}
  IN IF hits = {} THEN <<>> ELSE cands[MinOf(hits)]

\* Every <<a, b>> with a from as and b from bs, in the order a backtracking
\* match tries them: the later group varies fastest.
Pairs(as, bs) ==
  [k \in 1 .. (Len(as) * Len(bs)) |->
     <<as[((k - 1) \div Len(bs)) + 1], bs[((k - 1) % Len(bs)) + 1]>>]

\* The lengths the directive can take at position p of s, in the order of the
\* directive's alternatives.
\* %m: 1[0-2] | 0[1-9] | [1-9]
MonthLens(s, p) ==
  (IF At(s, p) = "1" /\ At(s, p + 1) \in {"0", "1", "2"} THEN <<2>> ELSE <<>>)
  \o (IF At(s, p) = "0" /\ At(s, p + 1) \in Digits \ {"0"} THEN <<2>> ELSE <<>>)
  \o (IF At(s, p) \in Digits \ {"0"} THEN <<1>> ELSE <<>>)

\* %d: 3[0-1] | [1-2]\d | 0[1-9] | [1-9] | " "[1-9]
DayLens(s, p) ==
  (IF At(s, p) = "3" /\ At(s, p + 1) \in {"0", "1"} THEN <<2>> ELSE <<>>)
  \o (IF At(s, p) \in {"1", "2"} /\ At(s, p + 1) \in Digits THEN <<2>> ELSE <<>>)
  \o (IF At(s, p) = "0" /\ At(s, p + 1) \in Digits \ {"0"} THEN <<2>> ELSE <<>>)
  \o (IF At(s, p) \in Digits \ {"0"} THEN <<1>> ELSE <<>>)
  \o (IF At(s, p) = " " /\ At(s, p + 1) \in Digits \ {"0"} THEN <<2>> ELSE <<>>)

\* %H: 2[0-3] | [0-1]\d | \d
HourLens(s, p) ==
  (IF At(s, p) = "2" /\ At(s, p + 1) \in {"0", "1", "2", "3"} THEN <<2>> ELSE <<>>)
  \o (IF At(s, p) \in {"0", "1"} /\ At(s, p + 1) \in Digits THEN <<2>> ELSE <<>>)
  \o (IF At(s, p) \in Digits THEN <<1>> ELSE <<>>)

\* %M: [0-5]\d | \d
MinuteLens(s, p) ==
  (IF At(s, p) \in {"0", "1", "2", "3", "4", "5"} /\ At(s, p + 1) \in Digits
     THEN <<2>> ELSE <<>>)
  \o (IF At(s, p) \in Digits THEN <<1>> ELSE <<>>)

\* The value of a day field, whose first character may be a space.
DayVal(s, p, n) == IF At(s, p) = " " THEN DigitsVal(s, p + 1, n - 1) ELSE DigitsVal(s, p, n)

\* datetime.strptime(s, "%m/%d/%Y"): a datetime at 00:00:00, or the ValueError.
StrptimeDate(s, line) ==
  LET cands == Pairs(MonthLens(s, 0), <<2, 1>>)
      good == {c \in Range(cands) :
                 /\ c[2] \in Range(DayLens(s, c[1] + 1))
                 /\ At(s, c[1]) = "/"
                 /\ At(s, c[1] + 1 + c[2]) = "/"
                 /\ \A k \in 0 .. 3 : At(s, c[1] + c[2] + 2 + k) \in Digits}
      m == FirstOf(cands, good)
  IN IF m = <<>> THEN Raise("ValueError", line)
     ELSE IF m[1] + m[2] + 6 # Len(s) THEN Raise("ValueError", line)
     ELSE
       LET mo == DigitsVal(s, 0, m[1])
           d == DayVal(s, m[1] + 1, m[2])
           y == DigitsVal(s, m[1] + m[2] + 2, 4)
       IN IF y < 1 \/ d > DaysInMonth(y, mo) THEN Raise("ValueError", line)
          ELSE DT(y, mo, d, 0, 0, 0)

\* datetime.strptime(s, "%H%M"): a datetime on 1900-01-01, or the ValueError.
StrptimeTime(s, line) ==
  LET cands == Pairs(HourLens(s, 0), <<2, 1>>)
      good == {c \in Range(cands) : c[2] \in Range(MinuteLens(s, c[1]))}
      m == FirstOf(cands, good)
  IN IF m = <<>> THEN Raise("ValueError", line)
     ELSE IF m[1] + m[2] # Len(s) THEN Raise("ValueError", line)
     ELSE DT(1900, 1, 1, DigitsVal(s, 0, m[1]), DigitsVal(s, m[1], m[2]), 0)

(***************************************************************************)
(* float(text): surrounding whitespace is dropped; an optional sign, then   *)
(* decimal digits with at most one point and at least one digit.  The      *)
(* value is kept exactly, as num / 10^scale with no trailing zero in num.   *)
(* (float also reads exponents, underscores, "inf" and "nan"; none of the   *)
(* cell texts below has one.)                                              *)
(***************************************************************************)
RECURSIVE Pow10(_)
Pow10(n) == IF n = 0 THEN 1 ELSE 10 * Pow10(n - 1)

RECURSIVE Normalise(_)
Normalise(v) ==
  IF v.scale > 0 /\ v.num % 10 = 0
    THEN Normalise([num |-> v.num \div 10, scale |-> v.scale - 1])
    ELSE v

ParseFloat(s, line) ==
  LET t == strip(s)
      signed == At(t, 0) \in {"+", "-"}
      b == IF signed THEN Tail(t) ELSE t
      dots == {i \in DOMAIN b : b[i] = "."}
      wellformed ==
        /\ Cardinality(dots) <= 1
        /\ Len(b) > Cardinality(dots)
        /\ \A i \in DOMAIN b \ dots : b[i] \in Digits
  IN IF ~wellformed THEN Raise("ValueError", line)
     ELSE
       LET dot == IF dots = {} THEN Len(b) + 1 ELSE CHOOSE i \in dots : TRUE
           nfrac == IF dots = {} THEN 0 ELSE Len(b) - dot
           mant == DigitsVal(b, 0, dot - 1) * Pow10(nfrac) + DigitsVal(b, dot, nfrac)
       IN Normalise([num |-> IF At(t, 0) = "-" THEN 0 - mant ELSE mant, scale |-> nfrac])

(***************************************************************************)
(* RealtimeSettlementParser._create_datetime                               *)
(***************************************************************************)
T2400 == <<"2", "4", "0", "0">>

\* A faulty variant: "2400" is 00:00 of the same day.
create_datetime_same_day(date, time) ==
  LET d == StrptimeDate(date, 78)
  IN IF IsError(d) THEN d
     ELSE IF time = T2400 THEN d
     ELSE
       LET t == StrptimeTime(time, 82)
       IN IF IsError(t) THEN t
          ELSE DT(d.year, d.month, d.day, t.hour, t.minute, t.second)

create_datetime(date, time) ==
  LET d == StrptimeDate(date, 78)
  IN IF IsError(d) THEN d
     ELSE IF time = T2400 THEN AddTimedelta(d, 1, 0)
     ELSE
       LET t == StrptimeTime(time, 82)
       IN IF IsError(t) THEN t
          ELSE DT(d.year, d.month, d.day, t.hour, t.minute, t.second)

(***************************************************************************)
(* The page: what _get_table can find at the URL                           *)
(***************************************************************************)
MaxDataRows == 2

OperDay == "Oper Day"
IntervalEnding == "Interval Ending"

Fmt2(n) == <<DigitChar(n \div 10), DigitChar(n % 10)>>
Fmt4(n) == Fmt2(n \div 100) \o Fmt2(n % 100)
\* A date in date_format and a time in time_format, zero padded as the page prints them.
DateText(mo, d, y) == Fmt2(mo) \o <<"/">> \o Fmt2(d) \o <<"/">> \o Fmt4(y)
TimeText(h, mi) == Fmt2(h) \o Fmt2(mi)

\* A <tr>: the texts of its <th> cells and of its <td> cells.
Tr(th, td) == [th |-> th, td |-> td]

\* The rows a page may start with.
FirstRows ==
  { Tr(<<OperDay, IntervalEnding, "HB_HOUSTON", "HB_NORTH">>, <<>>),
    Tr(<<OperDay, IntervalEnding, "HB_NORTH">>, <<>>),
    Tr(<<OperDay, IntervalEnding, "HB_NORTH", "HB_NORTH">>, <<>>),
    Tr(<<OperDay, "HB_NORTH">>, <<>>),
    Tr(<<"HB_NORTH">>, <<>>),
    Tr(<<>>, <<DateText(1, 15, 2024), TimeText(9, 30), <<"2", "3", ".", "1", "0">>>>) }

\* The rows that may follow.
DataRows ==
  { Tr(<<>>, <<DateText(1, 15, 2024), TimeText(9, 15), <<"2", "2", ".", "5", "0">>>>),
    Tr(<<>>, <<DateText(1, 15, 2024), TimeText(9, 30), <<"2", "3", ".", "1", "0">>>>),
    Tr(<<>>, <<<<" ">> \o DateText(12, 31, 2024) \o <<" ">>, <<" ">> \o T2400,
               <<"-", "5", ".", "2", "5", " ">>, <<"3", "0">>>>),
    Tr(<<>>, <<DateText(1, 15, 2024), TimeText(9, 15), <<"N", "/", "A">>, <<"7">>>>),
    Tr(<<>>, <<DateText(2, 30, 2024), TimeText(9, 30), <<"1", "0">>, <<"1", "1">>>>),
    Tr(<<>>, <<DateText(1, 15, 2024), TimeText(24, 60), <<"1", "0">>, <<"1", "1">>>>),
    Tr(<<>>, <<<<"b", "a", "d">>, <<"N", "/", "A">>>>) }

RECURSIVE SeqsUpTo(_, _)
SeqsUpTo(S, n) ==
  IF n = 0 THEN {<<>>}
  ELSE LET shorter == SeqsUpTo(S, n - 1)
       IN shorter \cup {Append(q, x) : q \in {t \in shorter : Len(t) = n - 1}, x \in S}

\* soup.find found no table of class tableStyle.
NotFound == [found |-> FALSE, rows |-> <<>>]
Found(rows) == [found |-> TRUE, rows |-> rows]

Pages ==
  {NotFound, Found(<<>>)}
    \cup {Found(<<h>> \o body) : h \in FirstRows, body \in SeqsUpTo(DataRows, MaxDataRows)}

\* The arguments a caller may pass.
\* A str object.
Str(x) == [str |-> x]

ZoneArgs == {None, Str("HB_NORTH"), Str("HB_HOUSTON"), Str(IntervalEnding), Str(OperDay),
             Str("LZ_WEST")}

StartTimeArgs ==
  {None, NotADatetime, DT(2024, 1, 15, 9, 30, 0), DT(2025, 1, 1, 0, 0, 0)}

\* The values the clock takes, in order.
ClockTimes == <<DT(2024, 1, 15, 9, 30, 0), DT(2025, 1, 1, 0, 14, 30)>>

(***************************************************************************)
(* The pieces of get_locations and parse_data                              *)
(***************************************************************************)
DefaultMinutes == 15
MinCells == 3
FirstLocation == 2

\* A faulty variant: the default is computed once, from the first clock value,
\* and kept.
DefaultStartTimeMemo(now) == AddTimedelta(ClockTimes[1], 0, 0 - DefaultMinutes * 60)

\* Line 43: datetime.now() - timedelta(minutes=15)
DefaultStartTime(now) == AddTimedelta(now, 0, 0 - DefaultMinutes * 60)

\* A faulty variant: the label is not checked for None at the start.
CheckArgsLabelLater(zone, st) ==
  IF st = None THEN NoError
  ELSE IF ~IsDatetime(st) THEN Raise("ValueError", 45)
  ELSE NoError

\* Lines 40-45: the exception the argument checks raise, or NoError.
CheckArgs(zone, st) ==
  IF zone = None THEN Raise("ValueError", 41)
  ELSE IF st = None THEN NoError
  ELSE IF ~IsDatetime(st) THEN Raise("ValueError", 45)
  ELSE NoError

\* A faulty variant: a table without rows has no headers, and no error.
extract_headers_guarded(tag) ==
  IF ~tag.found THEN Raise("AttributeError", 95)
  ELSE IF tag.rows = <<>> THEN [texts |-> <<>>]
  ELSE [texts |-> tag.rows[1].th]

\* _extract_headers: the texts of the <th> cells of rows[0], or the exception.
extract_headers(tag) ==
  IF ~tag.found THEN Raise("AttributeError", 95)
  ELSE IF tag.rows = <<>> THEN Raise("IndexError", 96)
  ELSE [texts |-> tag.rows[1].th]

\* A faulty variant: [1:]
LocationsSkipOne(hs) == SubSeq(hs, FirstLocation, Len(hs))

\* Line 28: [2:]
Locations(hs) == SubSeq(hs, FirstLocation + 1, Len(hs))

\* A faulty variant: a missing element is taken to be the first.
index_or_first(list, x, line) ==
  LET hits == {i \in DOMAIN list : Str(list[i]) = x}
  IN IF hits = {} THEN [at |-> 0] ELSE [at |-> MinOf(hits) - 1]

\* list.index(x): the 0-based position of the first element equal to x, or the
\* ValueError.
index(list, x, line) ==
  LET hits == {i \in DOMAIN list : Str(list[i]) = x}
  IN IF hits = {} THEN Raise("ValueError", line) ELSE [at |-> MinOf(hits) - 1]

\* A faulty variant: one cell fewer is enough.
LongEnoughTwo(cols) == Len(cols) >= MinCells - 1

\* Line 60
LongEnough(cols) == Len(cols) >= MinCells

\* Faulty variants: the cutoff itself is excluded; nothing is filtered.
IncludeRowStrict(st, ts) == DatetimeLE(st, ts) /\ st # ts
IncludeRowAll(st, ts) == TRUE

\* Line 63
IncludeRow(st, ts) == DatetimeLE(st, ts)

\* dataclass Price
Price(price, timestamp, hub) == [price |-> price, timestamp |-> timestamp, hub |-> hub]

\* Lines 59-66, one pass of the loop body over the <td> texts of a row: the
\* exception it raises (or NoError), the records it appends, what it did in
\* order, and the arguments and outcome of its call of _create_datetime.
Pass(e, emit, did, d, t, ts) ==
  [err |-> e, emit |-> emit, did |-> did, date |-> d, time |-> t, ts |-> ts]

ProcessRow(cols, di, ti, hi, st, zone) ==
  IF ~LongEnough(cols) THEN Pass(NoError, <<>>, <<"row">>, Unset, Unset, Unset)
  ELSE IF di >= Len(cols) THEN
    Pass(Raise("IndexError", 61), <<>>, <<"row">>, Unset, Unset, Unset)
  ELSE IF ti >= Len(cols) THEN
    Pass(Raise("IndexError", 61), <<>>, <<"row", "date">>, Unset, Unset, Unset)
  ELSE
    LET d == strip(cols[di + 1])
        t == strip(cols[ti + 1])
        ts == create_datetime(d, t)
        did1 == <<"row", "date", "time", "create_datetime">>
    IN IF IsError(ts) THEN Pass(ts, <<>>, did1, d, t, ts)
       ELSE IF hi >= Len(cols) THEN Pass(Raise("IndexError", 62), <<>>, did1, d, t, ts)
       ELSE IF ~IncludeRow(st, ts) THEN Pass(NoError, <<>>, did1 \o <<"price">>, d, t, ts)
       ELSE
         LET v == ParseFloat(cols[hi + 1], 65)
         IN IF IsError(v) THEN Pass(v, <<>>, did1 \o <<"price", "float">>, d, t, ts)
            ELSE Pass(NoError, <<Price(v, ts, zone)>>, did1 \o <<"price", "float">>, d, t, ts)

(***************************************************************************)
(* The state machine                                                       *)
(***************************************************************************)
Locals ==
  /\ start_time = Unset
  /\ table = Unset
  /\ headers = <<>>
  /\ hub_zone_index = -1
  /\ date_index = -1
  /\ time_index = -1
  /\ row_i = 0
  /\ result = <<>>
  /\ ret = NoValue
  /\ err = NoError
  /\ log = <<>>
  /\ date_arg = Unset
  /\ time_arg = Unset
  /\ price_datetime = Unset

Init ==
  /\ clock = ClockTimes[1]
  /\ pc = "idle"
  /\ op = "none"
  /\ zone_or_hub = None
  /\ start_time_arg = None
  /\ Locals

\* The call ends with an exception.
Fail(e) == /\ err' = e
           /\ pc' = "done"

\* Time passes between calls.
Tick ==
  /\ pc = "idle"
  /\ \E k \in 1 .. (Len(ClockTimes) - 1) :
       /\ clock = ClockTimes[k]
       /\ clock' = ClockTimes[k + 1]
  /\ UNCHANGED <<pc, op, zone_or_hub, start_time_arg, start_time, table, headers,
                 hub_zone_index, date_index, time_index, row_i, result, ret, err, log,
                 date_arg, time_arg, price_datetime>>

\* parse_data(zone, st) is called: lines 40-45.
parse_data_call ==
  /\ pc = "idle"
  /\ \E zone \in ZoneArgs, st \in StartTimeArgs :
       /\ op' = "parse_data"
       /\ zone_or_hub' = zone
       /\ start_time_arg' = st
       /\ IF IsError(CheckArgs(zone, st))
            THEN /\ Fail(CheckArgs(zone, st))
                 /\ UNCHANGED <<start_time, log>>
            ELSE /\ start_time' = IF st = None THEN DefaultStartTime(clock) ELSE st
                 /\ log' = IF st = None THEN <<"now">> ELSE <<>>
                 /\ pc' = "get_table"
                 /\ UNCHANGED err
  /\ UNCHANGED <<clock, table, headers, hub_zone_index, date_index, time_index, row_i,
                 result, ret, date_arg, time_arg, price_datetime>>

\* get_locations() is called.
get_locations_call ==
  /\ pc = "idle"
  /\ op' = "get_locations"
  /\ pc' = "get_table"
  /\ UNCHANGED <<clock, zone_or_hub, start_time_arg, start_time, table, headers,
                 hub_zone_index, date_index, time_index, row_i, result, ret, err, log,
                 date_arg, time_arg, price_datetime>>

\* _get_table (lines 27 and 47): the page is fetched and the table searched in it.
get_table ==
  /\ pc = "get_table"
  /\ \E page \in Pages : table' = page
  /\ log' = Append(log, "fetch")
  /\ pc' = IF op = "parse_data" THEN "find_rows" ELSE "locations"
  /\ UNCHANGED <<clock, op, zone_or_hub, start_time_arg, start_time, headers,
                 hub_zone_index, date_index, time_index, row_i, result, ret, err,
                 date_arg, time_arg, price_datetime>>

\* get_locations, line 28.
get_locations_return ==
  /\ pc = "locations"
  /\ \E hs \in {extract_headers(table)} :
        IF IsError(hs)
          THEN /\ Fail(hs)
               /\ UNCHANGED <<headers, ret, log>>
          ELSE /\ headers' = hs.texts
               /\ ret' = Returned(Locations(hs.texts))
               /\ log' = Append(log, "headers")
               /\ pc' = "done"
               /\ UNCHANGED err
  /\ UNCHANGED <<clock, op, zone_or_hub, start_time_arg, start_time, table,
                 hub_zone_index, date_index, time_index, row_i, result,
                 date_arg, time_arg, price_datetime>>

\* parse_data, line 48: rows = table.find_all("tr")
find_rows ==
  /\ pc = "find_rows"
  /\ IF ~table.found
       THEN /\ Fail(Raise("AttributeError", 48))
            /\ UNCHANGED log
       ELSE /\ log' = Append(log, "find_all_tr")
            /\ pc' = "headers"
            /\ UNCHANGED err
  /\ UNCHANGED <<clock, op, zone_or_hub, start_time_arg, start_time, table, headers,
                 hub_zone_index, date_index, time_index, row_i, result, ret,
                 date_arg, time_arg, price_datetime>>

\* parse_data, line 51: headers = self._extract_headers(table)
read_headers ==
  /\ pc = "headers"
  /\ \E hs \in {extract_headers(table)} :
        IF IsError(hs)
          THEN /\ Fail(hs)
               /\ UNCHANGED <<headers, log>>
          ELSE /\ headers' = hs.texts
               /\ log' = Append(log, "headers")
               /\ pc' = "resolve"
               /\ UNCHANGED err
  /\ UNCHANGED <<clock, op, zone_or_hub, start_time_arg, start_time, table,
                 hub_zone_index, date_index, time_index, row_i, result, ret,
                 date_arg, time_arg, price_datetime>>

\* parse_data, lines 53-57: the three columns are looked up by name.
resolve_indices ==
  /\ pc = "resolve"
  /\ \E h \in {index(headers, zone_or_hub, 53)},
        d \in {index(headers, Str(OperDay), 54)},
        t \in {index(headers, Str(IntervalEnding), 55)} :
        IF IsError(h) THEN
          /\ Fail(h)
          /\ UNCHANGED <<hub_zone_index, date_index, time_index>>
        ELSE IF IsError(d) THEN
          /\ Fail(d)
          /\ hub_zone_index' = h.at
          /\ UNCHANGED <<date_index, time_index>>
        ELSE IF IsError(t) THEN
          /\ Fail(t)
          /\ hub_zone_index' = h.at
          /\ date_index' = d.at
          /\ UNCHANGED time_index
        ELSE
          /\ hub_zone_index' = h.at
          /\ date_index' = d.at
          /\ time_index' = t.at
          /\ pc' = "loop"
          /\ UNCHANGED err
  /\ UNCHANGED <<clock, op, zone_or_hub, start_time_arg, start_time, table, headers,
                 row_i, result, ret, log, date_arg, time_arg, price_datetime>>

\* parse_data, lines 58-66: one pass of the loop, over rows[row_i].
loop_row ==
  /\ pc = "loop"
  /\ row_i < Len(table.rows)
  /\ \E p \in {ProcessRow(table.rows[row_i + 1].td, date_index, time_index,
                           hub_zone_index, start_time, zone_or_hub.str)} :
        /\ log' = log \o p.did
        /\ result' = result \o p.emit
        /\ date_arg' = p.date
        /\ time_arg' = p.time
        /\ price_datetime' = p.ts
        /\ IF IsError(p.err)
             THEN /\ Fail(p.err)
                  /\ UNCHANGED row_i
             ELSE /\ row_i' = row_i + 1
                  /\ UNCHANGED <<pc, err>>
  /\ UNCHANGED <<clock, op, zone_or_hub, start_time_arg, start_time, table, headers,
                 hub_zone_index, date_index, time_index, ret>>

\* parse_data, line 67: return result
parse_data_return ==
  /\ pc = "loop"
  /\ row_i = Len(table.rows)
  /\ ret' = Returned(result)
  /\ pc' = "done"
  /\ UNCHANGED <<clock, op, zone_or_hub, start_time_arg, start_time, table, headers,
                 hub_zone_index, date_index, time_index, row_i, result, err, log,
                 date_arg, time_arg, price_datetime>>

\* The caller has the outcome; the call's frame is gone.
finish ==
  /\ pc = "done"
  /\ pc' = "idle"
  /\ op' = "none"
  /\ zone_or_hub' = None
  /\ start_time_arg' = None
  /\ start_time' = Unset
  /\ table' = Unset
  /\ headers' = <<>>
  /\ hub_zone_index' = -1
  /\ date_index' = -1
  /\ time_index' = -1
  /\ row_i' = 0
  /\ result' = <<>>
  /\ ret' = NoValue
  /\ err' = NoError
  /\ log' = <<>>
  /\ date_arg' = Unset
  /\ time_arg' = Unset
  /\ price_datetime' = Unset
  /\ UNCHANGED clock

Next ==
  \/ Tick
  \/ parse_data_call
  \/ get_locations_call
  \/ get_table
  \/ get_locations_return
  \/ find_rows
  \/ read_headers
  \/ resolve_indices
  \/ loop_row
  \/ parse_data_return
  \/ finish

Spec == Init /\ [][Next]_vars

(***************************************************************************)
(* _create_datetime on its own, over a wider set of arguments              *)
(***************************************************************************)
DateArgs ==
  {DateText(mo, d, y) : mo \in 1 .. 12, d \in {1, 15, 28, 29, 30, 31}, y \in {2023, 2024, 2025}}
    \cup {<<"1", "/", "5", "/", "2", "0", "2", "4">>, <<"0", "1", "-", "1", "5", "-", "2", "0", "2", "4">>}

TimeArgs ==
  {T2400, TimeText(0, 0), TimeText(9, 30), TimeText(23, 59), TimeText(24, 60),
   <<"9", "3", "0">>, <<"2", "4", ":", "0", "0">>, <<" ">> \o T2400}

InitCD ==
  /\ clock = ClockTimes[1]
  /\ pc = "create_datetime"
  /\ op = "create_datetime"
  /\ zone_or_hub = None
  /\ start_time_arg = None
  /\ start_time = Unset
  /\ table = Unset
  /\ headers = <<>>
  /\ hub_zone_index = -1
  /\ date_index = -1
  /\ time_index = -1
  /\ row_i = 0
  /\ result = <<>>
  /\ ret = NoValue
  /\ err = NoError
  /\ log = <<>>
  /\ date_arg \in DateArgs
  /\ time_arg \in TimeArgs
  /\ price_datetime = Unset

create_datetime_call ==
  /\ pc = "create_datetime"
  /\ price_datetime' = create_datetime(date_arg, time_arg)
  /\ pc' = "done"
  /\ UNCHANGED <<clock, op, zone_or_hub, start_time_arg, start_time, table, headers,
                 hub_zone_index, date_index, time_index, row_i, result, ret, err, log,
                 date_arg, time_arg>>

NextCD == create_datetime_call

SpecCD == InitCD /\ [][NextCD]_vars

(***************************************************************************)
(* Vocabulary of the properties                                            *)
(***************************************************************************)
\* The error classes of the specification, by the place that raises:
\* the argument checks and the lookup of the requested label;
InvalidArgument(e) == e.type = "ValueError" /\ e.line \in {41, 45, 53}
\* the conversions of the date, time and price texts.
ParseError(e) == e.type = "ValueError" /\ e.line \in {78, 82, 65}

\* A parse_data call has ended / a get_locations call has ended.
ParseDataDone == op = "parse_data" /\ pc = "done"
GetLocationsDone == op = "get_locations" /\ pc = "done"

\* The call fetched a page that has a table with a first row.
HasFirstRow == table # Unset /\ table.found /\ table.rows # <<>>

\* The header labels of the fetched table.
HeaderLabels == table.rows[1].th

\* The 0-based column of a label: the first header cell with that text.
ColumnOf(label) ==
  (CHOOSE i \in DOMAIN HeaderLabels :
     HeaderLabels[i] = label /\ \A j \in 1 .. (i - 1) : HeaderLabels[j] # label) - 1

\* The call got past its argument checks with a label the header row has.
KnownLabelCall ==
  /\ ParseDataDone
  /\ zone_or_hub # None
  /\ start_time_arg = None \/ IsDatetime(start_time_arg)
  /\ HasFirstRow
  /\ zone_or_hub.str \in Range(HeaderLabels)

\* ... and the header row names the day and the time column as well.
ResolvedCall ==
  /\ KnownLabelCall
  /\ OperDay \in Range(HeaderLabels)
  /\ IntervalEnding \in Range(HeaderLabels)

\* The <td> rows the loop does not skip.
LongRows == {k \in DOMAIN table.rows : Len(table.rows[k].td) >= MinCells}

HasCell(k, col) == col < Len(table.rows[k].td)
CellOf(k, col) == table.rows[k].td[col + 1]

\* Every long row has a cell in each of the three columns.
AllCellsPresent ==
  \A k \in LongRows :
    /\ HasCell(k, ColumnOf(zone_or_hub.str))
    /\ HasCell(k, ColumnOf(OperDay))
    /\ HasCell(k, ColumnOf(IntervalEnding))

\* The timestamp built from row k, and the price read from it.
TimestampOf(k) ==
  create_datetime(strip(CellOf(k, ColumnOf(OperDay))), strip(CellOf(k, ColumnOf(IntervalEnding))))
PriceOf(k) == ParseFloat(CellOf(k, ColumnOf(zone_or_hub.str)), 65)

\* The records the specification asks for: one per long row at or after the
\* cutoff, in the order of the rows.
RECURSIVE ExpectedFrom(_)
ExpectedFrom(k) ==
  IF k > Len(table.rows) THEN <<>>
  ELSE (IF k \in LongRows /\ DatetimeLE(start_time, TimestampOf(k))
          THEN <<Price(PriceOf(k), TimestampOf(k), zone_or_hub.str)>>
          ELSE <<>>) \o ExpectedFrom(k + 1)

(***************************************************************************)
(* C1                                                                      *)
(***************************************************************************)
\* C1 as written: for every table (with its day and time columns), known label
\* and cutoff where no cell fails to parse, parse_data returns exactly the
\* records of the rows with at least 3 cells whose timestamp is >= the cutoff,
\* in row order.
C1_Original ==
  ( /\ ResolvedCall
    /\ \A k \in LongRows :
         /\ HasCell(k, ColumnOf(OperDay)) /\ HasCell(k, ColumnOf(IntervalEnding))
              => ~IsError(TimestampOf(k))
         /\ HasCell(k, ColumnOf(zone_or_hub.str)) => ~IsError(PriceOf(k)) )
  => /\ err = NoError
     /\ ret = Returned(ExpectedFrom(1))

\* C1, amended: when moreover every row with at least 3 cells has a cell in each
\* of the three columns looked up (day, time, location), parse_data returns exactly one record per row with at
\* least 3 cells whose timestamp is >= the cutoff (equal included, below
\* excluded), in row order.
C1_Filter ==
  ( /\ ResolvedCall
    /\ AllCellsPresent
    /\ \A k \in LongRows : ~IsError(TimestampOf(k)) /\ ~IsError(PriceOf(k)) )
  => /\ err = NoError
     /\ ret = Returned(ExpectedFrom(1))
     /\ \A i \in DOMAIN ret.value : DatetimeLE(start_time, ret.value[i].timestamp)

\* A call that returns a row exactly at the cutoff and leaves out an earlier one.
C1_Witness ==
  /\ ResolvedCall
  /\ ret.returned
  /\ Len(ret.value) = 1
  /\ ret.value[1].timestamp = start_time
  /\ Cardinality(LongRows) = 2

(***************************************************************************)
(* C2 (checked under SpecCD)                                               *)
(***************************************************************************)
\* The calendar day after y-mo-d.
DayAfter(y, mo, d) ==
  IF d < DaysInMonth(y, mo) THEN <<y, mo, d + 1>>
  ELSE IF mo < 12 THEN <<y, mo + 1, 1>>
  ELSE <<y + 1, 1, 1>>

\* C2: for a valid operating day D, "2400" gives 00:00 of the day after D, also
\* across a month's or a year's end, and a valid HHMM text gives D at HH:MM.
C2_Rollover ==
  pc = "done" /\ op = "create_datetime" =>
    /\ \A y \in Years, mo \in 1 .. 12, d \in 1 .. 31 :
         (date_arg = DateText(mo, d, y) /\ d <= DaysInMonth(y, mo)) =>
           /\ time_arg = T2400 =>
                price_datetime = DT(DayAfter(y, mo, d)[1], DayAfter(y, mo, d)[2],
                                    DayAfter(y, mo, d)[3], 0, 0, 0)
           /\ \A h \in 0 .. 23, mi \in 0 .. 59 :
                time_arg = TimeText(h, mi) => price_datetime = DT(y, mo, d, h, mi, 0)
    /\ (date_arg = DateText(1, 15, 2024) /\ time_arg = T2400)
         => price_datetime = DT(2024, 1, 16, 0, 0, 0)
    /\ (date_arg = DateText(1, 15, 2024) /\ time_arg = TimeText(9, 30))
         => price_datetime = DT(2024, 1, 15, 9, 30, 0)

\* "2400" on the last day of a year.
C2_Witness ==
  /\ pc = "done"
  /\ date_arg = DateText(12, 31, 2024)
  /\ time_arg = T2400
  /\ price_datetime = DT(2025, 1, 1, 0, 0, 0)

(***************************************************************************)
(* C3                                                                      *)
(***************************************************************************)
\* C3: get_locations returns the labels of the first row without the first
\* two, in their order, duplicates kept.
C3_Locations ==
  (GetLocationsDone /\ HasFirstRow) =>
    /\ ret.returned
    /\ Len(ret.value) = (IF Len(HeaderLabels) > 2 THEN Len(HeaderLabels) - 2 ELSE 0)
    /\ \A i \in DOMAIN ret.value : ret.value[i] = HeaderLabels[i + 2]
    /\ HeaderLabels = <<OperDay, IntervalEnding, "HB_HOUSTON", "HB_NORTH">>
         => ret.value = <<"HB_HOUSTON", "HB_NORTH">>

C3_Witness ==
  /\ GetLocationsDone
  /\ HasFirstRow
  /\ HeaderLabels = <<OperDay, IntervalEnding, "HB_HOUSTON", "HB_NORTH">>
  /\ ret = Returned(<<"HB_HOUSTON", "HB_NORTH">>)

(***************************************************************************)
(* C4                                                                      *)
(***************************************************************************)
\* What reading or converting a data row leaves in the log.
RowWork == {"row", "date", "time", "create_datetime", "price", "float"}

\* C4: with a label the header row does not have, parse_data fails with the
\* ValueError of the label lookup, reads and converts no cell of any row and
\* produces no record.
C4_UnknownLabel ==
  ( /\ ParseDataDone
    /\ HasFirstRow
    /\ zone_or_hub # None
    /\ zone_or_hub.str \notin Range(HeaderLabels) )
  => /\ InvalidArgument(err)
     /\ ret = NoValue
     /\ result = <<>>
     /\ Range(log) \cap RowWork = {}

C4_Witness ==
  /\ ParseDataDone
  /\ HasFirstRow
  /\ zone_or_hub = Str("LZ_WEST")
  /\ err = Raise("ValueError", 53)
  /\ LongRows # {}
  /\ Range(log) \cap RowWork = {}

(***************************************************************************)
(* C5                                                                      *)
(***************************************************************************)
\* Row k has a date or time text that does not convert / a price text that
\* does not convert.
BadTimestamp(k) == IsError(TimestampOf(k))
BadPrice(k) == IsError(PriceOf(k))

\* C5 as written: if any row with at least 3 cells has date, time or price text
\* that cannot be converted, the call fails with a ParseError and returns
\* nothing, wherever the row's timestamp lies relative to the cutoff.
C5_Original ==
  ( /\ ResolvedCall
    /\ zone_or_hub.str \notin {OperDay, IntervalEnding}
    /\ AllCellsPresent
    /\ \E k \in LongRows : BadTimestamp(k) \/ BadPrice(k) )
  => ParseError(err) /\ ret = NoValue

\* The rows whose conversion the code attempts and that fail it: a bad date or
\* time anywhere, a bad price only at or after the cutoff.
FailingRows ==
  {k \in LongRows :
     \/ BadTimestamp(k)
     \/ DatetimeLE(start_time, TimestampOf(k)) /\ BadPrice(k)}

\* C5, amended: in a call that reaches the rows (every row with at least 3
\* cells having its three cells), a row with unconvertible date or time text,
\* or with unconvertible price text and a timestamp >= the cutoff, makes the
\* whole call fail with a ParseError and return nothing, whatever was collected
\* before it; price text of a row below the cutoff is never converted, so
\* without such a row the call returns.
C5_AllOrNothing ==
  (ResolvedCall /\ AllCellsPresent) =>
    /\ FailingRows # {} => ParseError(err) /\ ret = NoValue
    /\ FailingRows = {} => err = NoError /\ ret.returned

\* A record had been collected when a later row failed to convert: nothing is
\* returned.
C5_Witness ==
  /\ ResolvedCall
  /\ AllCellsPresent
  /\ ParseError(err)
  /\ result # <<>>
  /\ ret = NoValue

(***************************************************************************)
(* C6                                                                      *)
(***************************************************************************)
\* C6: a pass of the loop over a row with fewer than 3 <td> cells (the header
\* row among them) raises nothing, reads no cell, appends no record and moves
\* on to the next row.
C6_ShortRowsSkipped ==
  [][ ( /\ pc = "loop"
        /\ row_i < Len(table.rows)
        /\ Len(table.rows[row_i + 1].td) < MinCells )
      => /\ err' = NoError
         /\ pc' = "loop"
         /\ row_i' = row_i + 1
         /\ result' = result
         /\ log' = Append(log, "row") ]_vars

\* A call that returned one record from a table that also has a row of two
\* unconvertible cells.
C6_Witness ==
  /\ ResolvedCall
  /\ err = NoError
  /\ Len(ret.value) = 1
  /\ \E k \in DOMAIN table.rows : Len(table.rows[k].td) = 2

(***************************************************************************)
(* C7                                                                      *)
(***************************************************************************)
\* C7: every record parse_data returns carries a label that get_locations
\* returns for the same table, never the day or the time column's.
C7_HubIsLocation ==
  (ParseDataDone /\ ret.returned) =>
    \A i \in DOMAIN ret.value :
      /\ ret.value[i].hub \in Range(Locations(HeaderLabels))
      /\ ret.value[i].hub \notin {OperDay, IntervalEnding}

(***************************************************************************)
(* C8                                                                      *)
(***************************************************************************)
\* C8 as written: an InvalidArgument failure comes before the page is fetched,
\* before the header row is read and before any row is read.
C8_Original ==
  (ParseDataDone /\ InvalidArgument(err)) =>
    Range(log) \cap ({"fetch", "find_all_tr", "headers"} \cup RowWork) = {}

\* C8, amended: a label that is None and a cutoff that is given but is no
\* datetime fail at the start of the call, before the page is fetched; a label
\* the header row does not have fails after the page is fetched and the header
\* row read, and before any data row is read.
C8_ArgumentErrors ==
  op = "parse_data" =>
    /\ (zone_or_hub = None \/ (start_time_arg # None /\ ~IsDatetime(start_time_arg)))
         => /\ pc = "done"
            /\ err \in {Raise("ValueError", 41), Raise("ValueError", 45)}
            /\ Range(log) \cap ({"fetch", "find_all_tr", "headers"} \cup RowWork) = {}
    /\ err = Raise("ValueError", 53)
         => /\ {"fetch", "headers"} \subseteq Range(log)
            /\ Range(log) \cap RowWork = {}

\* A known label with a cutoff that is no datetime: refused before any fetch.
C8_Witness ==
  /\ ParseDataDone
  /\ zone_or_hub = Str("HB_NORTH")
  /\ start_time_arg = NotADatetime
  /\ err = Raise("ValueError", 45)
  /\ log = <<>>

(***************************************************************************)
(* C9                                                                      *)
(***************************************************************************)
\* C9 as written: get_locations fails, and returns no list, when the table has
\* no rows and when its first row has no header cells.
C9_Original ==
  ( /\ GetLocationsDone
    /\ table.found
    /\ table.rows = <<>> \/ table.rows[1].th = <<>> )
  => IsError(err) /\ ret = NoValue

\* C9, amended: get_locations fails (IndexError) when the table has no rows at
\* all; when the first row has no header cells it returns the empty list.
C9_NoHeaderRow ==
  (GetLocationsDone /\ table.found) =>
    /\ table.rows = <<>> => err = Raise("IndexError", 96) /\ ret = NoValue
    /\ (table.rows # <<>> /\ table.rows[1].th = <<>>)
         => err = NoError /\ ret = Returned(<<>>)

C9_Witness ==
  /\ GetLocationsDone
  /\ table = Found(<<>>)
  /\ err = Raise("IndexError", 96)
  /\ ret = NoValue

(***************************************************************************)
(* C10                                                                     *)
(***************************************************************************)
\* The datetime 15 minutes before dt, by the calendar.
DayBefore(y, mo, d) ==
  IF d > 1 THEN <<y, mo, d - 1>>
  ELSE IF mo > 1 THEN <<y, mo - 1, DaysInMonth(y, mo - 1)>>
  ELSE <<y - 1, 12, 31>>

QuarterHourBefore(dt) ==
  IF dt.minute >= 15 THEN [dt EXCEPT !.minute = dt.minute - 15]
  ELSE IF dt.hour >= 1 THEN [dt EXCEPT !.hour = dt.hour - 1, !.minute = dt.minute + 45]
  ELSE DT(DayBefore(dt.year, dt.month, dt.day)[1], DayBefore(dt.year, dt.month, dt.day)[2],
          DayBefore(dt.year, dt.month, dt.day)[3], 23, dt.minute + 45, dt.second)

\* C10: a call without a cutoff filters from the clock's value at that call
\* minus 15 minutes, whatever earlier calls used; a cutoff that is given is
\* used as it is.
C10_DefaultCutoff ==
  (op = "parse_data" /\ pc # "idle" /\ ~IsError(CheckArgs(zone_or_hub, start_time_arg))) =>
    /\ start_time_arg = None => start_time = QuarterHourBefore(clock)
    /\ start_time_arg # None => start_time = start_time_arg
    /\ (ResolvedCall /\ ret.returned) =>
         \A i \in DOMAIN ret.value : DatetimeLE(start_time, ret.value[i].timestamp)

\* A call without a cutoff made after the clock moved on: its cutoff is the new
\* clock's, and the one row after it is returned.
C10_Witness ==
  /\ ResolvedCall
  /\ start_time_arg = None
  /\ clock = ClockTimes[2]
  /\ start_time = DT(2024, 12, 31, 23, 59, 30)
  /\ Len(ret.value) = 1
  /\ ret.value[1].timestamp = DT(2025, 1, 1, 0, 0, 0)

====
